---- MODULE Spec2Model ----
(***************************************************************************)
(* Task Manager: the TaskService store (an in-memory sqlite table), the    *)
(* HTTP routes over it, and the two chat agents (LangGraphTaskAgent with   *)
(* its CRUD tools, FoundryTaskAgent with its asynchronous start-up).       *)
(*                                                                         *)
(* Every sqlite statement is one atomic step.  A handler runs              *)
(* synchronously up to its first statement, so "request arrives + first    *)
(* statement" is one action; every later statement of the same handler is  *)
(* a separate action, and other requests may run in between (each `await`  *)
(* yields to the event loop).                                              *)
(***************************************************************************)
EXTENDS Integers, Sequences, FiniteSets, TLC

\* ------------------------------------------------------------------ bounds
\* Largest id the table hands out (INSERT is disabled once seq reaches it).
MaxId == 2

\* Titles a caller may send; "" is the empty string.
Titles == {"", "a", "b"}

\* The request slots: each is one in-flight HTTP request / store call.
Procs == {"p1", "p2"}

\* ------------------------------------------------------- optional values
\* An optional argument is <<>> when omitted (undefined) and <<v>> when given.
Undef == <<>>
Some(v) == <<v>>
IsDef(x) == x # Undef
Val(x) == x[1]

OptTitles == {Undef} \cup {Some(t) : t \in Titles}
OptBools == {Undef, Some(TRUE), Some(FALSE)}
Ids == 1..MaxId

\* JavaScript truthiness of an optional string: undefined and "" are falsy.
Truthy(x) == IsDef(x) /\ Val(x) # ""

\* `isComplete || false` / the default parameter `isComplete = false`.
OrFalse(c) == IF IsDef(c) THEN Val(c) ELSE FALSE

\* Route parameters are strings; parseInt(id, 10) yields a number or NaN.
\* NaN is <<>>, a number n is <<n>>.
IdParams == {ToString(i) : i \in Ids} \cup {"x"}
NaN == <<>>
parseInt(s) ==
    IF \E i \in Ids : ToString(i) = s
    THEN Some(CHOOSE i \in Ids : ToString(i) = s)
    ELSE NaN
isNaN(n) == n = NaN

VARIABLES
    rows,      \* the tasks table: a set of [id, title, isComplete]
    seq,       \* sqlite_sequence for tasks: the largest rowid ever inserted
    assigned,  \* history: the ids addTask has handed out so far
    pc,        \* pc[p]: where request slot p stands
    req,       \* req[p]: the call or tool call slot p is serving
    cur,       \* cur[p]: updateTask's local currentTask
    res,       \* res[p]: what the call returned / the response sent
    chat,      \* chat[p]: the chat request slot p is serving, if any
    env,       \* process.env: which configuration is present
    agent,     \* LangGraphTaskAgent.agent
    client,    \* FoundryTaskAgent.client
    agentId,   \* FoundryTaskAgent.agentId
    threadId,  \* FoundryTaskAgent.threadId
    startup,   \* where FoundryTaskAgent's constructor promise chain stands
    memory,    \* LangGraphTaskAgent.memory: which session keys wrote to which thread
    remote     \* the remote call the latest step issued, if any

vars == <<rows, seq, assigned, pc, req, cur, res, chat,
          env, agent, client, agentId, threadId, startup, memory, remote>>

\* ------------------------------------------------------------------ store
Task(i, t, c) == [id |-> i, title |-> t, isComplete |-> c]

HasRow(R, i) == \E r \in R : r.id = i
RowOf(R, i) == CHOOSE r \in R : r.id = i

SetMax(S) == CHOOSE x \in S : \A y \in S : y <= x
SetMin(S) == CHOOSE x \in S : \A y \in S : x <= y

\* INTEGER PRIMARY KEY AUTOINCREMENT: one more than the largest rowid that
\* ever existed in the table (sqlite_sequence), not merely the largest now.
NextRowidMaxPlusOne(R, s) ==
    IF R = {} THEN 1 ELSE SetMax({r.id : r \in R}) + 1
NextRowid(R, s) ==
    SetMax({s} \cup {r.id : r \in R}) + 1

\* SELECT * FROM tasks ORDER BY id
RECURSIVE OrderByIdDesc(_)
OrderByIdDesc(R) ==
    IF R = {} THEN <<>>
    ELSE LET m == SetMax({r.id : r \in R})
             first == CHOOSE r \in R : r.id = m
         IN  <<first>> \o OrderByIdDesc(R \ {first})
RECURSIVE OrderById(_)
OrderById(R) ==
    IF R = {} THEN <<>>
    ELSE LET m == SetMin({r.id : r \in R})
             first == CHOOSE r \in R : r.id = m
         IN  <<first>> \o OrderById(R \ {first})

\* SELECT * FROM tasks WHERE id = ? : the row, or null
Null == [kind |-> "null"]
SelectById(R, i) ==
    IF HasRow(R, i) THEN [kind |-> "task", val |-> RowOf(R, i)] ELSE Null

\* UPDATE tasks SET title = ?, isComplete = ? WHERE id = ?
UpsertRows(R, i, t, c) ==
    {r \in R : r.id # i} \cup {Task(i, t, c)}
UpdateRows(R, i, t, c) ==
    {IF r.id = i THEN Task(i, t, c) ELSE r : r \in R}

\* DELETE FROM tasks WHERE id = ?
DeleteRowsUpTo(R, i) == {r \in R : r.id > i}
DeleteRows(R, i) == {r \in R : r.id # i}

\* this.changes of the UPDATE: the rows the WHERE matched, whether or not
\* the new values differ from the stored ones
UpdateChangesIfModified(R, i, t, c) ==
    Cardinality({r \in R : r.id = i /\ r # Task(i, t, c)})
UpdateChanges(R, i, t, c) == Cardinality({r \in R : r.id = i})

\* this.changes of the DELETE: the rows removed
DeleteChanges(R, i) == Cardinality({r \in R : r.id = i})

\* ---------------------------------------------------------------- results
Bool(b) == [kind |-> "bool", val |-> b]
TaskRes(t) == [kind |-> "task", val |-> t]
TasksRes(s) == [kind |-> "tasks", val |-> s]
Rejected(e) == [kind |-> "rejected", val |-> e]
Http(status, body) == [kind |-> "http", status |-> status, body |-> body]
ErrorBody(msg) == [kind |-> "error", val |-> msg]
MessageBody(msg) == [kind |-> "message", val |-> msg]
None == [kind |-> "none"]

Idle == [kind |-> "idle"]

\* ------------------------------------------------------ per-slot updates
\* A caller issues its calls one after another: slot p takes a new request
\* when it has none in flight; req[p] and res[p] keep its latest call and
\* answer until then.
Free(p) == pc[p] \in {"idle", "done"}

Goto(p, l, q, c, r) ==
    /\ pc' = [pc EXCEPT ![p] = l]
    /\ req' = [req EXCEPT ![p] = q]
    /\ cur' = [cur EXCEPT ![p] = c]
    /\ res' = [res EXCEPT ![p] = r]

StoreUnchanged == UNCHANGED <<rows, seq, assigned>>
AgentsUnchanged == UNCHANGED <<env, agent, client, agentId, threadId, startup>>

\* a remote call, and a step that issues none
Call(api, thread, key) == [kind |-> "call", api |-> api, thread |-> thread, key |-> key]
NoCall == remote' = None

\* a store call or a task route: no chat, no agent, no remote call
Plain == UNCHANGED <<chat, memory>> /\ NoCall /\ AgentsUnchanged

\* INSERT INTO tasks (title, isComplete) VALUES (?, ?), then this.lastID
Insert(t, c) ==
    /\ rows' = rows \cup {Task(NextRowid(rows, seq), t, c)}
    /\ seq' = NextRowid(rows, seq)
    /\ assigned' = assigned \cup {NextRowid(rows, seq)}

\* ------------------------------------------------------------ tool texts
Text(s) == [kind |-> "text", val |-> s]
ToolError == [kind |-> "toolError", val |-> "schema validation failed"]
StatusWordSwapped(c) == IF c THEN "Incomplete" ELSE "Complete"
StatusWord(c) == IF c THEN "Complete" ELSE "Incomplete"
NotFoundText(i) == "Task with ID " \o ToString(i) \o " not found."
CreatedText(t) ==
    "Task created successfully: \"" \o t.title \o "\" (ID: " \o ToString(t.id) \o ")"
TaskLine(t) ==
    "- " \o ToString(t.id) \o ": " \o t.title \o " (" \o StatusWord(t.isComplete) \o ")"
RECURSIVE JoinLines(_)
JoinLines(ts) ==
    IF Len(ts) = 0 THEN ""
    ELSE IF Len(ts) = 1 THEN TaskLine(ts[1])
    ELSE TaskLine(ts[1]) \o "\n" \o JoinLines(Tail(ts))
TasksText(ts) ==
    IF Len(ts) = 0 THEN "No tasks found."
    ELSE "Found " \o ToString(Len(ts)) \o " tasks:\n" \o JoinLines(ts)
TaskText(t) ==
    "Task " \o ToString(t.id) \o ": \"" \o t.title \o "\" - Status: "
        \o StatusWord(t.isComplete)
UpdatedText(i) == "Task " \o ToString(i) \o " updated successfully."
DeletedText(i) == "Task " \o ToString(i) \o " deleted successfully."

\* --------------------------------------------------------------- TaskService
\* getAllTasks(): one SELECT.
getAllTasks(p) ==
    /\ Free(p)
    /\ StoreUnchanged /\ Plain
    /\ Goto(p, "done", [kind |-> "getAllTasks"], None, TasksRes(OrderById(rows)))

\* getTaskById(id): one SELECT.
getTaskById(p, i) ==
    /\ Free(p)
    /\ StoreUnchanged /\ Plain
    /\ Goto(p, "done", [kind |-> "getTaskById", id |-> i], None, SelectById(rows, i))

\* addTask(title, isComplete = false): one INSERT.  An undefined title is
\* bound as NULL and violates `title TEXT NOT NULL`: the promise rejects and
\* the statement changes nothing.  An empty string is not NULL.
addTask(p, t, c) ==
    /\ Free(p)
    /\ Plain
    /\ IF ~IsDef(t)
       THEN /\ StoreUnchanged
            /\ Goto(p, "done", [kind |-> "addTask", title |-> t, isComplete |-> c],
                    None, Rejected("SQLITE_CONSTRAINT"))
       ELSE /\ seq < MaxId
            /\ Insert(Val(t), OrFalse(c))
            /\ Goto(p, "done", [kind |-> "addTask", title |-> t, isComplete |-> c],
                    None, TaskRes(Task(NextRowid(rows, seq), Val(t), OrFalse(c))))

\* What the caller of updateTask does with its boolean: a direct caller has
\* its answer; the PUT route answers 404 or goes on to getTaskById; the
\* updateTask tool renders its text and hands it back to the agent.
AfterUpdate(p, q, c, b) ==
    CASE q.kind = "updateTask" -> Goto(p, "done", q, c, Bool(b))
      [] q.kind = "PUT /tasks/:id" ->
            IF ~b THEN Goto(p, "done", q, c, Http(404, ErrorBody("Task not found")))
                  ELSE Goto(p, "getUpdated", q, c, Bool(b))
      [] q.kind = "tool:updateTask" ->
            Goto(p, "invoke", q, c,
                 Text(IF ~b THEN NotFoundText(q.id) ELSE UpdatedText(q.id)))

\* updateTask, first half: `await this.getTaskById(id)`; no row: false.
UpdateRead(p, q) ==
    /\ StoreUnchanged
    /\ IF HasRow(rows, q.id)
       THEN Goto(p, "update", q, RowOf(rows, q.id), None)
       ELSE AfterUpdate(p, q, None, FALSE)

updateTask(p, i, t, c) ==
    /\ Free(p)
    /\ Plain
    /\ UpdateRead(p, [kind |-> "updateTask", id |-> i, title |-> t, isComplete |-> c])

\* the values updateTask writes: a supplied field, else the one it read.
updatedTitleOrEmpty(t, current) == IF IsDef(t) THEN Val(t) ELSE ""
updatedTitle(t, current) == IF IsDef(t) THEN Val(t) ELSE current.title
updatedComplete(c, current) == IF IsDef(c) THEN Val(c) ELSE current.isComplete

\* updateTask, second half: the UPDATE, resolving this.changes > 0.
UpdateWrite(p) ==
    /\ pc[p] = "update"
    /\ rows' = UpdateRows(rows, req[p].id,
                          updatedTitle(req[p].title, cur[p]),
                          updatedComplete(req[p].isComplete, cur[p]))
    /\ UNCHANGED <<seq, assigned>>
    /\ Plain
    /\ AfterUpdate(p, req[p], cur[p],
                   UpdateChanges(rows, req[p].id,
                                 updatedTitle(req[p].title, cur[p]),
                                 updatedComplete(req[p].isComplete, cur[p])) > 0)

\* deleteTask(id): one DELETE, resolving this.changes > 0.
deleteTask(p, i) ==
    /\ Free(p)
    /\ rows' = DeleteRows(rows, i)
    /\ UNCHANGED <<seq, assigned>>
    /\ Plain
    /\ Goto(p, "done", [kind |-> "deleteTask", id |-> i], None, Bool(DeleteChanges(rows, i) > 0))

\* -------------------------------------------------------------- task routes
\* GET /tasks
GetTasks(p) ==
    /\ Free(p)
    /\ StoreUnchanged /\ Plain
    /\ Goto(p, "done", [kind |-> "GET /tasks"], None,
            Http(200, TasksRes(OrderById(rows))))

\* POST /tasks {title, isComplete}
PostTasks(p, t, c) ==
    /\ Free(p)
    /\ Plain
    /\ IF ~Truthy(t)
       THEN /\ StoreUnchanged
            /\ Goto(p, "done", [kind |-> "POST /tasks", title |-> t, isComplete |-> c],
                    None, Http(400, ErrorBody("Title is required")))
       ELSE /\ seq < MaxId
            /\ Insert(Val(t), OrFalse(c))
            /\ Goto(p, "done", [kind |-> "POST /tasks", title |-> t, isComplete |-> c],
                    None, Http(201, TaskRes(Task(NextRowid(rows, seq), Val(t), OrFalse(c)))))

\* GET /tasks/:id
GetTask(p, s) ==
    /\ Free(p)
    /\ StoreUnchanged /\ Plain
    /\ Goto(p, "done", [kind |-> "GET /tasks/:id", param |-> s], None,
            IF isNaN(parseInt(s)) THEN Http(400, ErrorBody("Invalid task ID"))
            ELSE IF ~HasRow(rows, Val(parseInt(s)))
                 THEN Http(404, ErrorBody("Task not found"))
                 ELSE Http(200, SelectById(rows, Val(parseInt(s)))))

\* PUT /tasks/:id {title, isComplete}: updateTask, then getTaskById
PutTask(p, s, t, c) ==
    /\ Free(p)
    /\ Plain
    /\ IF isNaN(parseInt(s))
       THEN /\ StoreUnchanged
            /\ Goto(p, "done", [kind |-> "PUT /tasks/:id", param |-> s,
                                title |-> t, isComplete |-> c],
                    None, Http(400, ErrorBody("Invalid task ID")))
       ELSE UpdateRead(p, [kind |-> "PUT /tasks/:id", param |-> s,
                           id |-> Val(parseInt(s)), title |-> t, isComplete |-> c])

\* ... `const task = await taskService.getTaskById(taskId); res.json(task)`
PutTaskGet(p) ==
    /\ pc[p] = "getUpdated"
    /\ StoreUnchanged /\ Plain
    /\ Goto(p, "done", req[p], cur[p], Http(200, SelectById(rows, req[p].id)))

\* DELETE /tasks/:id
DeleteTask(p, s) ==
    /\ Free(p)
    /\ Plain
    /\ IF isNaN(parseInt(s))
       THEN /\ StoreUnchanged
            /\ Goto(p, "done", [kind |-> "DELETE /tasks/:id", param |-> s], None,
                    Http(400, ErrorBody("Invalid task ID")))
       ELSE /\ rows' = DeleteRows(rows, Val(parseInt(s)))
            /\ UNCHANGED <<seq, assigned>>
            /\ Goto(p, "done", [kind |-> "DELETE /tasks/:id", param |-> s,
                                id |-> Val(parseInt(s))], None,
                    IF DeleteChanges(rows, Val(parseInt(s))) > 0
                    THEN Http(200, MessageBody("Task deleted successfully"))
                    ELSE Http(404, ErrorBody("Task not found")))

\* ------------------------------------------------------------ chat messages
ChatMessage(role, content) == [kind |-> "chat", role |-> role, content |-> content]

LangGraphNotConfigured ==
    "LangGraph agent is not properly configured. Please check your Azure OpenAI settings."
FoundryNotConfigured ==
    "Azure AI Foundry agent is not properly configured. Please check your environment variables."
SorryError == "Sorry, I encountered an error processing your request."
SorryStatus(st) ==
    "Sorry, I encountered an issue processing your request. Status: " \o st
NoResponse == "I received your message but couldn't generate a response."

\* what the remote model or agent answers: opaque text
Reply == "reply"

\* ------------------------------------------------------- LangGraphTaskAgent
\* getSessionId(userSessionId?): the given id if truthy, else the default.
getSessionIdNullish(k) == IF IsDef(k) THEN Val(k) ELSE "default-session"
getSessionId(k) == IF Truthy(k) THEN Val(k) ELSE "default-session"

\* POST /chat/langgraph {message, sessionId} -> processMessage(message, sessionId)
ChatLangGraph(p, m, k) ==
    /\ Free(p)
    /\ StoreUnchanged /\ AgentsUnchanged
    /\ IF ~Truthy(m)
       THEN /\ UNCHANGED <<chat, memory>> /\ NoCall
            /\ Goto(p, "done", [kind |-> "POST /chat/langgraph", message |-> m,
                                sessionId |-> k],
                    None, Http(400, ErrorBody("Message is required")))
       ELSE IF ~IsDef(agent)
       THEN /\ UNCHANGED <<chat, memory>> /\ NoCall
            /\ Goto(p, "done", [kind |-> "POST /chat/langgraph", message |-> m,
                                sessionId |-> k],
                    None, Http(200, ChatMessage("assistant", LangGraphNotConfigured)))
       ELSE /\ chat' = [chat EXCEPT ![p] =
                          [kind |-> "POST /chat/langgraph", message |-> m,
                           sessionId |-> k, thread |-> getSessionId(k)]]
            /\ memory' = memory \cup {[thread |-> getSessionId(k), key |-> k]}
            /\ remote' = Call("agent.invoke", getSessionId(k), k)
            /\ Goto(p, "invoke", Idle, None, None)

\* a tool call leaves the chat, the agents and the remote history alone
InTool(p) ==
    /\ pc[p] = "invoke"
    /\ UNCHANGED <<chat, memory>> /\ NoCall /\ AgentsUnchanged

\* createTask tool: schema {title: string, isComplete?: boolean}
ToolCreateTask(p, t, c) ==
    /\ InTool(p)
    /\ IF ~IsDef(t)
       THEN /\ StoreUnchanged
            /\ Goto(p, "invoke", [kind |-> "tool:createTask", title |-> t,
                                  isComplete |-> c], None, ToolError)
       ELSE /\ seq < MaxId
            /\ Insert(Val(t), OrFalse(c))
            /\ Goto(p, "invoke", [kind |-> "tool:createTask", title |-> t,
                                  isComplete |-> c], None,
                    Text(CreatedText(Task(NextRowid(rows, seq), Val(t), OrFalse(c)))))

\* getTasks tool
ToolGetTasks(p) ==
    /\ InTool(p)
    /\ StoreUnchanged
    /\ Goto(p, "invoke", [kind |-> "tool:getTasks"], None,
            Text(TasksText(OrderById(rows))))

\* getTask tool
ToolGetTask(p, i) ==
    /\ InTool(p)
    /\ StoreUnchanged
    /\ Goto(p, "invoke", [kind |-> "tool:getTask", id |-> i], None,
            Text(IF SelectById(rows, i) = Null THEN NotFoundText(i)
                 ELSE TaskText(SelectById(rows, i).val)))

\* updateTask tool: updateTask(id, title, isComplete), then the text
ToolUpdateTask(p, i, t, c) ==
    /\ InTool(p)
    /\ UpdateRead(p, [kind |-> "tool:updateTask", id |-> i, title |-> t,
                      isComplete |-> c])

\* deleteTask tool
ToolDeleteTaskAlwaysDeleted(p, i) ==
    /\ InTool(p)
    /\ rows' = DeleteRows(rows, i)
    /\ UNCHANGED <<seq, assigned>>
    /\ Goto(p, "invoke", [kind |-> "tool:deleteTask", id |-> i], None,
            Text(DeletedText(i)))
ToolDeleteTask(p, i) ==
    /\ InTool(p)
    /\ rows' = DeleteRows(rows, i)
    /\ UNCHANGED <<seq, assigned>>
    /\ Goto(p, "invoke", [kind |-> "tool:deleteTask", id |-> i], None,
            Text(IF DeleteChanges(rows, i) > 0 THEN DeletedText(i) ELSE NotFoundText(i)))

\* agent.invoke resolves: the last message is the answer
InvokeResolves(p) ==
    /\ pc[p] = "invoke"
    /\ StoreUnchanged /\ AgentsUnchanged /\ UNCHANGED memory /\ NoCall
    /\ chat' = [chat EXCEPT ![p] = None]
    /\ Goto(p, "done", chat[p], None, Http(200, ChatMessage("assistant", Reply)))

\* agent.invoke rejects: caught, the apology is the answer
InvokeRejects(p) ==
    /\ pc[p] = "invoke"
    /\ StoreUnchanged /\ AgentsUnchanged /\ UNCHANGED memory /\ NoCall
    /\ chat' = [chat EXCEPT ![p] = None]
    /\ Goto(p, "done", chat[p], None, Http(200, ChatMessage("assistant", SorryError)))

\* --------------------------------------------------------- FoundryTaskAgent
AgentIdValue == "agent-1"
ThreadIdValue == "thread-1"

StartupStep == UNCHANGED <<rows, seq, assigned, pc, req, cur, res, chat, env, agent,
                           client, memory>>

\* getAgent(agentId) resolves: this.agentId = agent.id; threads.create() is issued
GetAgentResolvesThreadFirst ==
    /\ startup = "getAgent"
    /\ threadId' = Some(ThreadIdValue)
    /\ startup' = "threads.create"
    /\ remote' = Call("threads.create", "", Undef)
    /\ UNCHANGED agentId
    /\ StartupStep
GetAgentResolves ==
    /\ startup = "getAgent"
    /\ agentId' = Some(AgentIdValue)
    /\ startup' = "threads.create"
    /\ remote' = Call("threads.create", "", Undef)
    /\ UNCHANGED threadId
    /\ StartupStep

\* threads.create() resolves: this.threadId = thread.id
ThreadsCreateResolves ==
    /\ startup = "threads.create"
    /\ threadId' = Some(ThreadIdValue)
    /\ startup' = "ready"
    /\ NoCall
    /\ UNCHANGED agentId
    /\ StartupStep

\* either promise rejects: the .catch logs, nothing else is set
StartupRejects ==
    /\ startup \in {"getAgent", "threads.create"}
    /\ startup' = "failed"
    /\ NoCall
    /\ UNCHANGED <<agentId, threadId>>
    /\ StartupStep

\* processMessage's guard: client, thread and agent must all be set
Configured(cl, th, ag) == IsDef(cl) /\ IsDef(th) /\ IsDef(ag)

FoundryStep(p) ==
    /\ StoreUnchanged /\ AgentsUnchanged /\ UNCHANGED <<chat, memory>>

\* POST /chat/foundry {message, sessionId} -> processMessage(message);
\* the first remote call, messages.create(threadId, "user", message), is issued
ChatFoundryPerSession(p, m, k) ==
    /\ Free(p)
    /\ FoundryStep(p)
    /\ IF ~Truthy(m)
       THEN /\ NoCall
            /\ Goto(p, "done", [kind |-> "POST /chat/foundry", message |-> m,
                                sessionId |-> k],
                    None, Http(400, ErrorBody("Message is required")))
       ELSE IF ~Configured(client, threadId, agentId)
       THEN /\ NoCall
            /\ Goto(p, "done", [kind |-> "POST /chat/foundry", message |-> m,
                                sessionId |-> k],
                    None, Http(200, ChatMessage("assistant", FoundryNotConfigured)))
       ELSE /\ remote' = Call("messages.create",
                              IF Truthy(k) THEN Val(k) ELSE Val(threadId), k)
            /\ Goto(p, "messages.create",
                    [kind |-> "POST /chat/foundry", message |-> m, sessionId |-> k],
                    None, None)
ChatFoundry(p, m, k) ==
    /\ Free(p)
    /\ FoundryStep(p)
    /\ IF ~Truthy(m)
       THEN /\ NoCall
            /\ Goto(p, "done", [kind |-> "POST /chat/foundry", message |-> m,
                                sessionId |-> k],
                    None, Http(400, ErrorBody("Message is required")))
       ELSE IF ~Configured(client, threadId, agentId)
       THEN /\ NoCall
            /\ Goto(p, "done", [kind |-> "POST /chat/foundry", message |-> m,
                                sessionId |-> k],
                    None, Http(200, ChatMessage("assistant", FoundryNotConfigured)))
       ELSE /\ remote' = Call("messages.create", Val(threadId), k)
            /\ Goto(p, "messages.create",
                    [kind |-> "POST /chat/foundry", message |-> m, sessionId |-> k],
                    None, None)

\* messages.create resolves: runs.createAndPoll(threadId, agentId) is issued
MessagesCreateResolves(p) ==
    /\ pc[p] = "messages.create"
    /\ FoundryStep(p)
    /\ remote' = Call("runs.createAndPoll", Val(threadId), req[p].sessionId)
    /\ Goto(p, "runs.createAndPoll", req[p], None, None)

\* the run ends completed (messages.list is issued) or with another status
RunEnds(p, st) ==
    /\ pc[p] = "runs.createAndPoll"
    /\ FoundryStep(p)
    /\ IF st = "completed"
       THEN /\ remote' = Call("messages.list", Val(threadId), req[p].sessionId)
            /\ Goto(p, "messages.list", req[p], None, None)
       ELSE /\ NoCall
            /\ Goto(p, "done", req[p], None,
                    Http(200, ChatMessage("assistant", SorryStatus(st))))

\* the listing yields the latest assistant text, or none
MessagesListed(p, text) ==
    /\ pc[p] = "messages.list"
    /\ FoundryStep(p) /\ NoCall
    /\ Goto(p, "done", req[p], None,
            Http(200, ChatMessage("assistant",
                                  IF IsDef(text) THEN Val(text) ELSE NoResponse)))

\* any of the awaited remote calls rejects: caught, the apology is the answer
FoundryRejectsUncaught(p) ==
    /\ pc[p] \in {"messages.create", "runs.createAndPoll", "messages.list"}
    /\ FoundryStep(p) /\ NoCall
    /\ Goto(p, "done", req[p], None, Http(500, ErrorBody("Failed to process message")))
FoundryRejects(p) ==
    /\ pc[p] \in {"messages.create", "runs.createAndPoll", "messages.list"}
    /\ FoundryStep(p) /\ NoCall
    /\ Goto(p, "done", req[p], None, Http(200, ChatMessage("assistant", SorryError)))

\* ---------------------------------------------------------------- Init/Next
InitStore ==
    /\ rows = {}
    /\ seq = 0
    /\ assigned = {}
    /\ pc = [p \in Procs |-> "idle"]
    /\ req = [p \in Procs |-> Idle]
    /\ cur = [p \in Procs |-> None]
    /\ res = [p \in Procs |-> None]
    /\ chat = [p \in Procs |-> None]
    /\ memory = {}
    /\ remote = None

\* LangGraphTaskAgent's constructor: without the configuration it returns
\* early; with it, agent is built unless something in the try block throws.
InitLangGraph ==
    /\ agent \in {Undef, Some("ReactAgent")}
    /\ ~env.openai => agent = Undef

\* FoundryTaskAgent's constructor: without the configuration it returns
\* early; with it, client is built and getAgent(...) is pending, unless
\* `new AgentsClient` or the getAgent call throws into the catch.
InitFoundryNoEarlyReturn ==
    /\ client = Some("AgentsClient")
    /\ startup = "getAgent"
    /\ agentId = Undef
    /\ threadId = Undef
InitFoundry ==
    /\ client \in {Undef, Some("AgentsClient")}
    /\ startup \in {"off", "getAgent"}
    /\ ~env.foundry => client = Undef
    /\ startup = "getAgent" => IsDef(client)
    /\ agentId = Undef
    /\ threadId = Undef

\* The store under one caller at a time: every TaskService method, every task
\* route and every tool, the LangGraph agent configured, Foundry not.
Init ==
    /\ InitStore
    /\ env = [openai |-> TRUE, foundry |-> FALSE]
    /\ agent = Some("ReactAgent")
    /\ InitFoundry

StoreCall(p) ==
    \/ getAllTasks(p)
    \/ \E i \in Ids : getTaskById(p, i)
    \/ \E t \in OptTitles, c \in OptBools : addTask(p, t, c)
    \/ \E i \in Ids, t \in OptTitles, c \in OptBools : updateTask(p, i, t, c)
    \/ UpdateWrite(p)
    \/ \E i \in Ids : deleteTask(p, i)

TaskRoute(p) ==
    \/ GetTasks(p)
    \/ \E t \in OptTitles, c \in OptBools : PostTasks(p, t, c)
    \/ \E s \in IdParams : GetTask(p, s)
    \/ \E s \in IdParams, t \in OptTitles, c \in OptBools : PutTask(p, s, t, c)
    \/ PutTaskGet(p)
    \/ \E s \in IdParams : DeleteTask(p, s)

ToolCall(p) ==
    \/ \E t \in OptTitles, c \in OptBools : ToolCreateTask(p, t, c)
    \/ ToolGetTasks(p)
    \/ \E i \in Ids : ToolGetTask(p, i)
    \/ \E i \in Ids, t \in OptTitles, c \in OptBools : ToolUpdateTask(p, i, t, c)
    \/ \E i \in Ids : ToolDeleteTask(p, i)
    \/ InvokeResolves(p)
    \/ InvokeRejects(p)

Next ==
    \/ StoreCall("p1")
    \/ TaskRoute("p1")
    \/ ChatLangGraph("p1", Some("hi"), Undef)
    \/ ToolCall("p1")

Spec == Init /\ [][Next]_vars

\* ------------------------------------------------------------- SpecAgents
\* The two agents under every configuration and construction outcome, with
\* every chat request; the tools work on one title.
Messages == {Undef, Some(""), Some("hi")}
SessionKeys == {Undef, Some(""), Some("abc"), Some("xyz"), Some("default-session")}
RunStatuses == {"completed", "failed"}

InitAgents ==
    /\ InitStore
    /\ env \in [openai : BOOLEAN, foundry : BOOLEAN]
    /\ InitLangGraph
    /\ InitFoundry

AgentTool(p) ==
    \/ ToolCreateTask(p, Some("a"), Undef)
    \/ ToolGetTasks(p)
    \/ \E i \in Ids : ToolDeleteTask(p, i)
    \/ InvokeResolves(p)
    \/ InvokeRejects(p)

NextAgents ==
    \/ GetAgentResolves
    \/ ThreadsCreateResolves
    \/ StartupRejects
    \/ \E m \in Messages, k \in SessionKeys : ChatLangGraph("p1", m, k)
    \/ AgentTool("p1")
    \/ \E m \in Messages, k \in SessionKeys : ChatFoundry("p1", m, k)
    \/ MessagesCreateResolves("p1")
    \/ \E st \in RunStatuses : RunEnds("p1", st)
    \/ \E text \in {Undef, Some(Reply)} : MessagesListed("p1", text)
    \/ FoundryRejects("p1")

SpecAgents == InitAgents /\ [][NextAgents]_vars

\* --------------------------------------------------------------- SpecConc
\* Two requests in flight at once: creates, updates (direct, through PUT and
\* through the updateTask tool) and deletes, interleaved statement by statement.
\* Largest id handed out while two requests interleave.
MaxConcId == 1
ConcIds == 1..MaxConcId
ConcTitles == {Undef, Some("b")}
ConcBools == {Undef, Some(TRUE)}

ConcCall(p) ==
    \/ seq < MaxConcId /\ PostTasks(p, Some("a"), Undef)
    \/ \E i \in ConcIds, t \in ConcTitles, c \in ConcBools : updateTask(p, i, t, c)
    \/ \E i \in ConcIds, t \in ConcTitles, c \in ConcBools :
          PutTask(p, ToString(i), t, c)
    \/ UpdateWrite(p)
    \/ PutTaskGet(p)
    \/ \E i \in ConcIds : DeleteTask(p, ToString(i))
    \/ ChatLangGraph(p, Some("hi"), Undef)
    \/ \E i \in ConcIds, t \in ConcTitles, c \in ConcBools :
          ToolUpdateTask(p, i, t, c)
    \/ \E i \in ConcIds : ToolDeleteTask(p, i)
    \/ InvokeResolves(p)

NextConc == \E p \in Procs : ConcCall(p)

SpecConc == Init /\ [][NextConc]_vars

\* ================================================================= claims
\* slot p took the step: something of its own changed
Acts(p) ==
    <<pc[p], req[p], cur[p], res[p], chat[p]>> #
        <<pc'[p], req'[p], cur'[p], res'[p], chat'[p]>>

\* slot p took a step that began a new call of the given kinds (a tool call
\* begins inside agent.invoke)
Begins(p, kinds) ==
    pc[p] \in {"idle", "done", "invoke"} /\ Acts(p) /\ req'[p].kind \in kinds

RowIds(R) == {r.id : r \in R}

\* ---- C1
\* C1: the id of every newly created task is strictly greater than every id
\* the store assigned before, deleted ones included; the caller is handed
\* that id; and no two rows ever share an id.
CreateKinds == {"addTask", "POST /tasks", "tool:createTask"}
CreatedAnswer(t) == {TaskRes(t), Http(201, TaskRes(t)), Text(CreatedText(t))}
C1_IdsNeverReused ==
    [][/\ \A r1, r2 \in rows' : r1.id = r2.id => r1 = r2
       /\ Cardinality(rows') > Cardinality(rows) =>
            \A r \in rows' \ rows :
                /\ \A j \in assigned : r.id > j
                /\ \A r0 \in rows : r.id > r0.id
                /\ r.id \in assigned'
                /\ \E p \in Procs : res'[p] \in CreatedAnswer(r)]_vars

\* a task was just created with id 2 while the row with id 1 is gone
C1_Witness ==
    /\ pc["p1"] = "done" /\ req["p1"].kind = "addTask"
    /\ res["p1"].kind = "task" /\ res["p1"].val.id = 2
    /\ rows = {res["p1"].val}
    /\ assigned = {1, 2}

\* ---- C3
\* C3: updateTask on an existing id writes exactly the supplied fields: an
\* omitted title (isComplete) keeps the value of the row updateTask read, which
\* is the stored row; the id, the other rows and the id counter do not change;
\* getTaskById(id) on the resulting store shows the new row.
C3_Expected(q, before) ==
    Task(q.id,
         IF IsDef(q.title) THEN Val(q.title) ELSE before.title,
         IF IsDef(q.isComplete) THEN Val(q.isComplete) ELSE before.isComplete)
C3_PartialUpdate ==
    [][\A p \in Procs :
        /\ (pc[p] # "update" /\ pc'[p] = "update") =>
              /\ HasRow(rows, req'[p].id)
              /\ cur'[p] = RowOf(rows, req'[p].id)
              /\ UNCHANGED <<rows, seq, assigned>>
        /\ (pc[p] = "update" /\ pc'[p] # "update") =>
              /\ cur[p] = RowOf(rows, req[p].id)
              /\ rows' = (rows \ {cur[p]}) \cup {C3_Expected(req[p], cur[p])}
              /\ SelectById(rows', req[p].id) = TaskRes(C3_Expected(req[p], cur[p]))
              /\ UNCHANGED <<seq, assigned>>]_vars

\* updateTask(1, undefined, true) has just run on a task titled "a": the
\* title is still "a", isComplete is true, and the other task is as it was
C3_Witness ==
    /\ pc["p1"] = "done" /\ req["p1"].kind = "updateTask"
    /\ req["p1"].id = 1 /\ req["p1"].title = Undef /\ req["p1"].isComplete = Some(TRUE)
    /\ cur["p1"] = Task(1, "a", FALSE)
    /\ res["p1"] = Bool(TRUE)
    /\ rows = {Task(1, "a", TRUE), Task(2, "b", FALSE)}

\* ---- C5
\* C5: deleteTask(id) on an id without a row returns false and changes
\* nothing; on an id with a row it returns true and removes that row only; a
\* caller whose previous call was deleteTask(id) = true gets false from
\* deleteTask(id) again.
C5_DeleteIdempotent ==
    [][\A p \in Procs : Begins(p, {"deleteTask"}) =>
        /\ res'[p] = Bool(HasRow(rows, req'[p].id))
        /\ rows' = {r \in rows : r.id # req'[p].id}
        /\ ~HasRow(rows, req'[p].id) => rows' = rows
        /\ UNCHANGED <<seq, assigned>>
        /\ (req[p].kind = "deleteTask" /\ req[p].id = req'[p].id /\ res[p] = Bool(TRUE))
              => res'[p] = Bool(FALSE) /\ rows' = rows]_vars

\* the second of two deleteTask(1) calls in a row has answered false, with
\* task 2 still stored
C5_Witness ==
    /\ pc["p1"] = "done" /\ req["p1"] = [kind |-> "deleteTask", id |-> 1]
    /\ res["p1"] = Bool(FALSE)
    /\ assigned = {1, 2}
    /\ RowIds(rows) = {2}

\* ---- C6
\* C6: updateTask on an id without a row returns false, raises nothing and
\* changes nothing; on an id with a row it goes on to its UPDATE and returns
\* true, whatever the arguments (equal to the stored values, or none).
C6_UpdateResult ==
    [][\A p \in Procs :
        /\ Begins(p, {"updateTask"}) =>
              IF HasRow(rows, req'[p].id)
              THEN pc'[p] = "update"
              ELSE pc'[p] = "done" /\ res'[p] = Bool(FALSE)
                   /\ UNCHANGED <<rows, seq, assigned>>
        /\ (pc[p] = "update" /\ pc'[p] # "update" /\ req[p].kind = "updateTask"
              /\ HasRow(rows, req[p].id)) =>
              pc'[p] = "done" /\ res'[p] = Bool(TRUE)]_vars

\* updateTask(1) with no field at all has answered true, and
\* updateTask with the stored values would too
C6_Witness ==
    /\ pc["p1"] = "done" /\ req["p1"].kind = "updateTask"
    /\ req["p1"].title = Undef /\ req["p1"].isComplete = Undef
    /\ res["p1"] = Bool(TRUE)
    /\ HasRow(rows, req["p1"].id)

\* ---- C7
\* C7: getAllTasks (and GET /tasks) returns exactly the stored tasks, each
\* once, in strictly ascending order of id; the empty sequence on an empty
\* store.
IsListing(s, R) ==
    /\ Len(s) = Cardinality(R)
    /\ {s[k] : k \in 1..Len(s)} = R
    /\ \A k \in 1..(Len(s) - 1) : s[k].id < s[k + 1].id
    /\ R = {} => s = <<>>
C7_ListSorted ==
    \A p \in Procs :
        /\ (pc[p] = "done" /\ req[p].kind = "getAllTasks") =>
              res[p].kind = "tasks" /\ IsListing(res[p].val, rows)
        /\ (pc[p] = "done" /\ req[p].kind = "GET /tasks") =>
              res[p].status = 200 /\ IsListing(res[p].body.val, rows)

\* a listing of two tasks, taken after the first task's title was changed
C7_Witness ==
    /\ pc["p1"] = "done" /\ req["p1"].kind = "getAllTasks"
    /\ Len(res["p1"].val) = 2
    /\ res["p1"].val[1].title = "b" /\ res["p1"].val[2].title = "a"

\* ---- C2
\* C2: updateTask is atomic with respect to other store operations: when a
\* title-only updateTask on an id has returned true and its title is stored,
\* an isComplete-only updateTask on the same id that then writes leaves both
\* new values stored.
UpdateReturnedTrue(o) ==
    \/ req[o].kind = "updateTask" /\ pc[o] = "done" /\ res[o] = Bool(TRUE)
    \/ req[o].kind = "PUT /tasks/:id" /\ pc[o] = "getUpdated"
    \/ req[o].kind = "PUT /tasks/:id" /\ pc[o] = "done" /\ res[o].status = 200
    \/ req[o].kind = "tool:updateTask" /\ pc[o] = "invoke"
          /\ res[o] = Text(UpdatedText(req[o].id))
C2_UpdatesAtomic ==
    [][\A p, o \in Procs :
        (/\ p # o
         /\ pc[p] = "update" /\ pc'[p] # "update"
         /\ req[p].title = Undef /\ IsDef(req[p].isComplete)
         /\ UpdateReturnedTrue(o)
         /\ req[o].id = req[p].id
         /\ IsDef(req[o].title) /\ req[o].isComplete = Undef
         /\ HasRow(rows, req[p].id)
         /\ RowOf(rows, req[p].id).title = Val(req[o].title))
        => /\ HasRow(rows', req[p].id)
           /\ RowOf(rows', req[p].id).title = Val(req[o].title)
           /\ RowOf(rows', req[p].id).isComplete = Val(req[p].isComplete)]_vars

\* ---- C4
\* C4: a create with an empty or absent title fails with an error and is not
\* attempted (no row, no id consumed), through addTask, POST /tasks and the
\* createTask tool alike.
IsFailure(r) ==
    \/ r.kind \in {"rejected", "toolError"}
    \/ r.kind = "http" /\ r.status = 400
C4_CreateValidates ==
    [][\A p \in Procs :
        (Begins(p, CreateKinds) /\ ~Truthy(req'[p].title)) =>
            IsFailure(res'[p]) /\ UNCHANGED <<rows, seq, assigned>>]_vars

\* ---- C8
\* C8: every stored task has a non-empty title, in every reachable state.
C8_TitlesNonEmpty == \A r \in rows : r.title # ""

\* ---- C9
\* C9 as claimed: every supplied session key is the thread it resolves to,
\* and an absent key resolves to "default-session".
C9_SuppliedKeyUnchanged ==
    \A p \in Procs : chat[p].kind = "POST /chat/langgraph" =>
        chat[p].thread =
            (IF IsDef(chat[p].sessionId) THEN Val(chat[p].sessionId)
             ELSE "default-session")

\* C9 as amended: every non-empty session key resolves to itself, an absent
\* or empty one to "default-session"; every call ever made with a key used
\* the thread that key resolves to, whatever ran in between.
Resolved(k) == IF IsDef(k) /\ Val(k) # "" THEN Val(k) ELSE "default-session"
C9_ResolveIsFunctionOfKey ==
    /\ \A p \in Procs : chat[p].kind = "POST /chat/langgraph" =>
          chat[p].thread = Resolved(chat[p].sessionId)
    /\ \A e \in memory : e.thread = Resolved(e.key)
    /\ \A e1, e2 \in memory : e1.key = e2.key => e1.thread = e2.thread
    /\ (remote.kind = "call" /\ remote.api = "agent.invoke") =>
          remote.thread = Resolved(remote.key)

\* calls were made with "abc", with no key and with the empty key, and a
\* further call with "abc" is running on thread "abc"
C9_Witness ==
    /\ {[thread |-> "abc", key |-> Some("abc")],
        [thread |-> "default-session", key |-> Undef],
        [thread |-> "default-session", key |-> Some("")]} \subseteq memory
    /\ pc["p1"] = "invoke"
    /\ chat["p1"].sessionId = Some("abc") /\ chat["p1"].thread = "abc"
    /\ remote = Call("agent.invoke", "abc", Some("abc"))

\* ---- C10
\* C10: an agent constructed without its configuration stays unconfigured,
\* and each processMessage on it answers the fixed assistant message at once:
\* no error, no remote call, no change to the store.
IsLangGraphChat(p) ==
    req'[p].kind = "POST /chat/langgraph" \/ chat'[p].kind = "POST /chat/langgraph"
LangGraphMessage(p) ==
    IF chat'[p].kind = "POST /chat/langgraph" THEN chat'[p].message ELSE req'[p].message
C10_DegradedForGood ==
    [][/\ ~env.foundry =>
            client' = Undef /\ agentId' = Undef /\ threadId' = Undef
       /\ ~env.openai => agent' = Undef
       /\ \A p \in Procs :
            (/\ ~env.foundry
             /\ Begins(p, {"POST /chat/foundry"})
             /\ Truthy(req'[p].message))
            => /\ pc'[p] = "done"
               /\ res'[p] = Http(200, ChatMessage("assistant", FoundryNotConfigured))
               /\ remote' = None
               /\ UNCHANGED <<rows, seq, assigned>>
       /\ \A p \in Procs :
            (/\ ~env.openai
             /\ Free(p) /\ Acts(p) /\ IsLangGraphChat(p)
             /\ Truthy(LangGraphMessage(p)))
            => /\ pc'[p] = "done"
               /\ res'[p] = Http(200, ChatMessage("assistant", LangGraphNotConfigured))
               /\ remote' = None
               /\ UNCHANGED <<rows, seq, assigned, memory>>]_vars

\* Foundry has no configuration and has just answered its fixed message,
\* after the configured LangGraph agent created a task through its tool
C10_Witness ==
    /\ ~env.foundry /\ env.openai
    /\ rows # {} /\ memory # {}
    /\ pc["p1"] = "done" /\ req["p1"].kind = "POST /chat/foundry"
    /\ res["p1"] = Http(200, ChatMessage("assistant", FoundryNotConfigured))
    /\ remote = None

\* ---- C11
\* C11: however the remote call a processMessage is waiting for ends
\* (resolved, rejected, or a run that ended with a status other than
\* "completed"), the chat route answers 200 with a ChatMessage of role
\* "assistant"; after a failure its content is one of the two apologies.
Awaiting == {"invoke", "messages.create", "runs.createAndPoll", "messages.list"}
Apologies == {SorryError} \cup {SorryStatus(st) : st \in RunStatuses \ {"completed"}}
AnswersAfter(l) ==
    CASE l = "invoke" -> {Reply, SorryError}
      [] l = "messages.create" -> {SorryError}
      [] l = "runs.createAndPoll" -> Apologies
      [] l = "messages.list" -> {Reply, NoResponse, SorryError}
C11_UpstreamFailureAnswered ==
    [][\A p \in Procs :
        (pc[p] \in Awaiting /\ pc'[p] = "done") =>
            /\ res'[p].kind = "http"
            /\ res'[p].status = 200
            /\ res'[p].body.kind = "chat"
            /\ res'[p].body.role = "assistant"
            /\ res'[p].body.content \in AnswersAfter(pc[p])]_vars

\* a configured Foundry agent whose run ended with status "failed" answered
\* the status apology
C11_Witness ==
    /\ Configured(client, threadId, agentId)
    /\ pc["p1"] = "done" /\ req["p1"].kind = "POST /chat/foundry"
    /\ res["p1"] = Http(200, ChatMessage("assistant", SorryStatus("failed")))

\* ---- C12
\* C12: the getTask, updateTask and deleteTask tools return a text and never
\* an error: "Task with ID <id> not found." with the store unchanged when
\* the id has no row; when it has one, the task rendering, "Task <id>
\* updated successfully." or "Task <id> deleted successfully.".  The text
\* says "not found" exactly when the store call found no row.
C12_ToolsReportMissingIds ==
    [][\A p \in Procs :
        /\ Begins(p, {"tool:getTask"}) =>
              /\ pc'[p] = "invoke"
              /\ rows' = rows
              /\ res'[p] = Text(IF HasRow(rows, req'[p].id)
                                THEN TaskText(RowOf(rows, req'[p].id))
                                ELSE NotFoundText(req'[p].id))
        /\ Begins(p, {"tool:deleteTask"}) =>
              /\ pc'[p] = "invoke"
              /\ IF HasRow(rows, req'[p].id)
                 THEN /\ res'[p] = Text(DeletedText(req'[p].id))
                      /\ rows' = rows \ {RowOf(rows, req'[p].id)}
                 ELSE /\ res'[p] = Text(NotFoundText(req'[p].id))
                      /\ rows' = rows
        /\ Begins(p, {"tool:updateTask"}) =>
              IF HasRow(rows, req'[p].id)
              THEN pc'[p] = "update" /\ rows' = rows
              ELSE /\ pc'[p] = "invoke"
                   /\ res'[p] = Text(NotFoundText(req'[p].id))
                   /\ rows' = rows
        /\ (pc[p] = "update" /\ req[p].kind = "tool:updateTask" /\ pc'[p] # "update") =>
              /\ pc'[p] = "invoke"
              /\ IF HasRow(rows, req[p].id)
                 THEN /\ res'[p] = Text(UpdatedText(req[p].id))
                      /\ HasRow(rows', req[p].id)
                 ELSE /\ res'[p] = Text(NotFoundText(req[p].id))
                      /\ rows' = rows]_vars

\* the deleteTask tool was called with id 2, which was never assigned, while
\* task 1 is stored: the text is the not-found text and task 1 is still there
C12_Witness ==
    /\ pc["p1"] = "invoke"
    /\ req["p1"] = [kind |-> "tool:deleteTask", id |-> 2]
    /\ res["p1"] = Text("Task with ID 2 not found.")
    /\ assigned = {1}
    /\ RowIds(rows) = {1}

\* ---- C13
\* C13: a create with a title and no isComplete on an empty store leaves
\* exactly one task, with the id handed back and isComplete = false.  The
\* getTasks tool changes nothing and answers "No tasks found." on an empty
\* store, and otherwise "Found <n> tasks:" followed by one line
\* "- <id>: <title> (Complete|Incomplete)" per stored task, ascending by id.
Entry(t) ==
    ToString(t.id) \o ": " \o t.title \o
        (IF t.isComplete THEN " (Complete)" ELSE " (Incomplete)")
RECURSIVE Entries(_)
Entries(R) ==
    IF R = {} THEN ""
    ELSE LET first == CHOOSE r \in R : \A o \in R : r.id <= o.id
         IN  "\n- " \o Entry(first) \o Entries(R \ {first})
Rendering(R) ==
    IF R = {} THEN "No tasks found."
    ELSE "Found " \o ToString(Cardinality(R)) \o " tasks:" \o Entries(R)
CreatesWithTitleOnly(p) ==
    /\ \/ Begins(p, {"addTask", "tool:createTask"}) /\ IsDef(req'[p].title)
       \/ Begins(p, {"POST /tasks"}) /\ Truthy(req'[p].title)
    /\ req'[p].isComplete = Undef
C13_CreateThenList ==
    [][\A p \in Procs :
        /\ (CreatesWithTitleOnly(p) /\ rows = {}) =>
              \E n \in 1..(seq + 1) :
                 /\ rows' = {Task(n, Val(req'[p].title), FALSE)}
                 /\ res'[p] \in CreatedAnswer(Task(n, Val(req'[p].title), FALSE))
                 /\ Rendering(rows') =
                       "Found 1 tasks:\n- " \o ToString(n) \o ": "
                          \o Val(req'[p].title) \o " (Incomplete)"
        /\ Begins(p, {"tool:getTasks"}) =>
              /\ rows' = rows
              /\ res'[p] = Text(Rendering(rows))]_vars

\* task 1 "a" was created on the empty store and the getTasks tool has just
\* rendered it
C13_Witness ==
    /\ pc["p1"] = "invoke"
    /\ req["p1"].kind = "tool:getTasks"
    /\ rows = {Task(1, "a", FALSE)}
    /\ assigned = {1}
    /\ res["p1"] = Text("Found 1 tasks:\n- 1: a (Incomplete)")

\* ---- C14
\* C14: FoundryTaskAgent's threadId, once set, never changes; every remote
\* call of its processMessage (messages.create, runs.createAndPoll,
\* messages.list) is made on that thread, whatever session id came with the
\* chat request.
FoundryApis == {"messages.create", "runs.createAndPoll", "messages.list"}
C14_OneFoundryThread ==
    [][/\ IsDef(threadId) => threadId' = threadId
       /\ (remote'.kind = "call" /\ remote'.api \in FoundryApis) =>
             /\ IsDef(threadId)
             /\ remote'.thread = Val(threadId)
             /\ remote'.thread = Val(threadId')]_vars

\* a Foundry chat sent with session id "xyz" is running on the start-up
\* thread, while the LangGraph agent has used "xyz" as a thread of its own
C14_Witness ==
    /\ threadId = Some(ThreadIdValue)
    /\ [thread |-> "xyz", key |-> Some("xyz")] \in memory
    /\ pc["p1"] = "runs.createAndPoll"
    /\ req["p1"].sessionId = Some("xyz")
    /\ remote = Call("runs.createAndPoll", ThreadIdValue, Some("xyz"))

\* ---- C15
\* C15: a PUT /tasks/:id that answers 200 carries a task in its body (never
\* null), whatever other requests ran between its updateTask and its
\* getTaskById.
C15_PutAnswersTask ==
    \A p \in Procs :
        (/\ req[p].kind = "PUT /tasks/:id"
         /\ pc[p] = "done"
         /\ res[p].kind = "http"
         /\ res[p].status = 200)
        => /\ res[p].body.kind = "task"
           /\ res[p].body.val.id = req[p].id

\* ---- C16
\* C16: no step brings back a row whose id was assigned and is no longer
\* stored; an updateTask whose row was deleted between its read and its
\* write changes nothing and reports false (404 from PUT, the not-found
\* text from the tool).
UpdateSaysMissing(p) ==
    CASE req[p].kind = "updateTask" -> pc'[p] = "done" /\ res'[p] = Bool(FALSE)
      [] req[p].kind = "PUT /tasks/:id" ->
            pc'[p] = "done" /\ res'[p] = Http(404, ErrorBody("Task not found"))
      [] req[p].kind = "tool:updateTask" ->
            pc'[p] = "invoke" /\ res'[p] = Text(NotFoundText(req[p].id))
C16_UpdateNeverResurrects ==
    [][/\ \A i \in assigned : ~HasRow(rows, i) => ~HasRow(rows', i)
       /\ RowIds(rows') \subseteq assigned'
       /\ \A p \in Procs :
            (pc[p] = "update" /\ pc'[p] # "update" /\ ~HasRow(rows, req[p].id)) =>
                /\ rows' = rows
                /\ UpdateSaysMissing(p)]_vars

\* updateTask(1, ...) read task 1, task 1 was then deleted by the other
\* caller, and the update has returned false with the store still empty
C16_Witness ==
    /\ pc["p1"] = "done" /\ req["p1"].kind = "updateTask" /\ req["p1"].id = 1
    /\ cur["p1"] = Task(1, "a", FALSE)
    /\ res["p1"] = Bool(FALSE)
    /\ pc["p2"] = "done" /\ req["p2"].kind = "DELETE /tasks/:id"
    /\ res["p2"] = Http(200, MessageBody("Task deleted successfully"))
    /\ rows = {}
    /\ assigned = {1}

C18_StartupGuard ==
    [][/\ IsDef(threadId') => IsDef(agentId) /\ IsDef(client)
       /\ (remote'.kind = "call" /\ remote'.api \in FoundryApis) =>
             Configured(client, threadId, agentId)
       /\ \A p \in Procs :
            (/\ Begins(p, {"POST /chat/foundry"})
             /\ Truthy(req'[p].message)
             /\ startup \in {"getAgent", "threads.create", "failed"})
            => /\ pc'[p] = "done"
               /\ res'[p] = Http(200, ChatMessage("assistant", FoundryNotConfigured))
               /\ remote' = None
               /\ UNCHANGED <<agentId, threadId, startup>>]_vars

\* a message arrived after getAgent resolved and while threads.create was
\* still pending, and got the fixed message
C18_Witness ==
    /\ startup = "threads.create"
    /\ IsDef(client) /\ agentId = Some(AgentIdValue) /\ threadId = Undef
    /\ pc["p1"] = "done" /\ req["p1"].kind = "POST /chat/foundry"
    /\ req["p1"].message = Some("hi")
    /\ res["p1"] = Http(200, ChatMessage("assistant", FoundryNotConfigured))
    /\ remote = None
====
